---------------------------- MODULE Spec2Model ----------------------------
(***************************************************************************)
(* A model of the Freedify provider services:                              *)
(*   src/app/setlist_service.py      (SetlistService)                      *)
(*   src/app/jamendo_service.py      (JamendoService)                      *)
(*   src/app/listenbrainz_service.py (ListenBrainzService)                 *)
(*   src/app/musicbrainz_service.py  (MusicBrainzService)                  *)
(*                                                                         *)
(* Python strings are modelled as sequences of one-character strings, so   *)
(* that str.replace, str.strip, str.startswith and the regular expressions *)
(* of search_setlists are computed character by character.                 *)
(***************************************************************************)
EXTENDS Integers, Sequences, FiniteSets, TLC

(***************************************************************************)
(* State.  Each service is a module-level singleton; one request of each   *)
(* service is followed from its call to its return.                        *)
(***************************************************************************)
VARIABLES
    \* SetlistService.search_setlists
    sl_key,        \* SETLIST_FM_API_KEY (line 14)
    sl_now,        \* datetime.now().year
    sl_query,      \* the query argument
    sl_page,       \* the page argument
    sl_pc,         \* "idle", "awaiting" (suspended at line 110), "done"
    sl_params,     \* the params dict passed to client.get
    sl_resp,       \* what the provider answered
    sl_ret,        \* the returned list
    sl_raised,     \* an exception left search_setlists
    sl_requests    \* HTTP requests issued

VARIABLES
    \* JamendoService: one operation from call to return
    jm_op,         \* the method called ("none" before the call)
    jm_arg,        \* its query or id argument
    jm_pc,         \* "idle", "await1" / "await2" (suspended in _api_request), "done"
    jm_log,        \* the _api_request calls issued, in order
    jm_resp,       \* what the provider answered last
    jm_ret,        \* the returned value
    jm_raised      \* an exception left the method

VARIABLES
    \* ListenBrainzService: the singleton's token and the tasks that use it
    lb_token,      \* self.token of the singleton (lines 24, 29)
    lb_user,       \* each task's own user token
    lb_pc,         \* each task: "start", "token_set", "awaiting", "done"
    lb_op,         \* each task's operation ("none" before it is called)
    lb_sent,       \* the requests issued, in order
    lb_ret         \* each task's returned value: "pending", "True", "False"

VARIABLES
    \* SetlistService.get_setlist
    gs_id,         \* the setlist_id argument
    gs_pc,         \* "idle", "awaiting" (suspended at line 131), "done"
    gs_resp,       \* what the provider answered
    gs_ret,        \* the returned value
    gs_requests    \* HTTP requests issued

VARIABLES
    \* ListenBrainzService.get_recommendations
    rec_count,     \* the count argument
    rec_pc,        \* "idle", "awaiting" (line 158), "loop" (line 173), "done"
    rec_resp,      \* what ListenBrainz answered
    rec_payload,   \* the recording_mbid of each entry of payload["mbids"]
    rec_mbids,     \* the list the loop of line 173 walks
    rec_i,         \* the position of the loop in rec_mbids
    rec_out,       \* recommendations, as built so far
    rec_lookups,   \* how often the lookup of line 176 was reached
    rec_ret        \* the returned list

VARIABLES
    \* MusicBrainzService.lookup_by_isrc
    mb_isrc,       \* the isrc argument
    mb_pc,         \* "idle", "await_isrc" (line 45), "await_cover" (line 104), "done"
    mb_requests,   \* the HTTP requests issued, in order
    mb_resp,       \* what the recording lookup answered
    mb_result,     \* the result dict of line 71, while it is being built
    mb_ret         \* the returned value

VARIABLES
    \* the formatters of the services, applied to one raw input
    fmt_op,        \* the formatter applied ("none" before it is)
    fmt_in,        \* its argument
    fmt_out        \* the value it returned

sl_vars == <<sl_key, sl_now, sl_query, sl_page, sl_pc, sl_params, sl_resp,
             sl_ret, sl_raised, sl_requests>>

jm_vars == <<jm_op, jm_arg, jm_pc, jm_log, jm_resp, jm_ret, jm_raised>>

lb_vars == <<lb_token, lb_user, lb_pc, lb_op, lb_sent, lb_ret>>

gs_vars == <<gs_id, gs_pc, gs_resp, gs_ret, gs_requests>>

rec_vars == <<rec_count, rec_pc, rec_resp, rec_payload, rec_mbids, rec_i, rec_out,
              rec_lookups, rec_ret>>

mb_vars == <<mb_isrc, mb_pc, mb_requests, mb_resp, mb_result, mb_ret>>

fmt_vars == <<fmt_op, fmt_in, fmt_out>>

vars == <<sl_vars, jm_vars, lb_vars, rec_vars, mb_vars, fmt_vars, gs_vars>>

\* what the actions of one service leave alone
SlOthers == <<jm_vars, lb_vars, rec_vars, mb_vars, fmt_vars, gs_vars>>

JmOthers == <<sl_vars, lb_vars, rec_vars, mb_vars, fmt_vars, gs_vars>>

LbOthers == <<sl_vars, jm_vars, rec_vars, mb_vars, fmt_vars, gs_vars>>

RecOthers == <<sl_vars, jm_vars, lb_vars, mb_vars, fmt_vars, gs_vars>>

MbOthers == <<sl_vars, jm_vars, lb_vars, rec_vars, fmt_vars, gs_vars>>

FmtOthers == <<sl_vars, jm_vars, lb_vars, rec_vars, mb_vars, gs_vars>>

\* get_setlist reads the API key of sl_vars and leaves them alone
GsOthers == <<sl_vars, jm_vars, lb_vars, rec_vars, mb_vars, fmt_vars>>

(***************************************************************************)
(* Characters and character classes, over the characters up to U+00FF.     *)
(***************************************************************************)
DigitSeq == <<"0", "1", "2", "3", "4", "5", "6", "7", "8", "9">>

LowerSeq == <<"a", "b", "c", "d", "e", "f", "g", "h", "i", "j", "k", "l", "m",
              "n", "o", "p", "q", "r", "s", "t", "u", "v", "w", "x", "y", "z">>

UpperSeq == <<"A", "B", "C", "D", "E", "F", "G", "H", "I", "J", "K", "L", "M",
              "N", "O", "P", "Q", "R", "S", "T", "U", "V", "W", "X", "Y", "Z">>

Range(f) == {f[i] : i \in DOMAIN f}

Digits == Range(DigitSeq)

UpperLetters == Range(UpperSeq)

Letters == Range(LowerSeq) \cup UpperLetters

\* \d
IsDigit(c) == c \in Digits

\* [a-z] under re.IGNORECASE
IsAlpha(c) == c \in Letters

\* \s of a str pattern and the characters str.strip() removes: the
\* characters with str.isspace() up to U+00FF, i.e. \t \n \x0b \x0c \r,
\* \x1c \x1d \x1e \x1f, the space, \x85 and \xa0 (the whitespace of the
\* higher planes is outside the alphabet of the model)
WhitespaceChars ==
    { " ", "\t", "\n", "\r", "\f", "", "", "", "", "",
      "", " " }

IsSpace(c) == c \in WhitespaceChars

\* the characters of U+0080..U+00FF with str.isalnum(): letters, the
\* superscript digits, the fractions and the ordinal indicators
Latin1WordChars ==
    { "ª", "²", "³", "µ", "¹", "º", "¼", "½", "¾", "À", "Á", "Â",
      "Ã", "Ä", "Å", "Æ", "Ç", "È", "É", "Ê", "Ë", "Ì", "Í", "Î",
      "Ï", "Ð", "Ñ", "Ò", "Ó", "Ô", "Õ", "Ö", "Ø", "Ù", "Ú", "Û",
      "Ü", "Ý", "Þ", "ß", "à", "á", "â", "ã", "ä", "å", "æ", "ç",
      "è", "é", "ê", "ë", "ì", "í", "î", "ï", "ð", "ñ", "ò", "ó",
      "ô", "õ", "ö", "ø", "ù", "ú", "û", "ü", "ý", "þ", "ÿ" }

\* \w of a str pattern: str.isalnum() or "_", up to U+00FF
IsWord(c) == IsAlpha(c) \/ IsDigit(c) \/ c = "_" \/ c \in Latin1WordChars

\* the upper-case letters of U+0080..U+00FF and their str.lower()
Latin1UpperSeq ==
    << "À", "Á", "Â", "Ã", "Ä", "Å", "Æ", "Ç", "È", "É", "Ê", "Ë",
       "Ì", "Í", "Î", "Ï", "Ð", "Ñ", "Ò", "Ó", "Ô", "Õ", "Ö", "Ø",
       "Ù", "Ú", "Û", "Ü", "Ý", "Þ" >>

Latin1LowerSeq ==
    << "à", "á", "â", "ã", "ä", "å", "æ", "ç", "è", "é", "ê", "ë",
       "ì", "í", "î", "ï", "ð", "ñ", "ò", "ó", "ô", "õ", "ö", "ø",
       "ù", "ú", "û", "ü", "ý", "þ" >>

\* str.lower() of one character
LowerChar(c) ==
    IF c \in UpperLetters
    THEN LowerSeq[CHOOSE i \in DOMAIN UpperSeq : UpperSeq[i] = c]
    ELSE IF c \in Range(Latin1UpperSeq)
    THEN Latin1LowerSeq[CHOOSE i \in DOMAIN Latin1UpperSeq : Latin1UpperSeq[i] = c]
    ELSE c

\* str.lower()
Lower(s) == [i \in DOMAIN s |-> LowerChar(s[i])]

\* int() of one decimal digit
DigitVal(c) == (CHOOSE i \in DOMAIN DigitSeq : DigitSeq[i] = c) - 1

\* int() of a run of decimal digits
RECURSIVE ToInt(_)
ToInt(s) ==
    IF s = <<>> THEN 0
    ELSE 10 * ToInt(SubSeq(s, 1, Len(s) - 1)) + DigitVal(s[Len(s)])

\* "%02d" % n, for 0 <= n <= 99
Pad2(n) == <<DigitSeq[(n \div 10) + 1], DigitSeq[(n % 10) + 1]>>

\* str(n) for a four-digit year
Str4(n) == <<DigitSeq[((n \div 1000) % 10) + 1], DigitSeq[((n \div 100) % 10) + 1],
             DigitSeq[((n \div 10) % 10) + 1], DigitSeq[(n % 10) + 1]>>

(***************************************************************************)
(* String operations.                                                      *)
(***************************************************************************)
\* s[i-1 : i-1+n] in Python terms: the n characters of s from position i
Slice(s, i, n) == SubSeq(s, i, i + n - 1)

\* s.startswith(p, i-1): p occurs in s at position i
OccursAt(s, p, i) ==
    /\ i >= 1
    /\ i + Len(p) - 1 <= Len(s)
    /\ Slice(s, i, Len(p)) = p

\* str.startswith(prefix)
StartsWith(s, p) == OccursAt(s, p, 1)

\* str.startswith(tuple of prefixes)
StartsWithAny(s, ps) == \E p \in ps : StartsWith(s, p)

\* str.replace(old, ""), old non-empty: every non-overlapping occurrence of
\* old, found left to right, is dropped
RECURSIVE ReplaceFrom(_, _, _)
ReplaceFrom(s, old, i) ==
    IF i > Len(s) THEN <<>>
    ELSE IF OccursAt(s, old, i) THEN ReplaceFrom(s, old, i + Len(old))
    ELSE <<s[i]>> \o ReplaceFrom(s, old, i + 1)

StrReplace(s, old) == IF old = <<>> THEN s ELSE ReplaceFrom(s, old, 1)

\* str.lstrip() / str.rstrip() / str.strip()
RECURSIVE LStrip(_)
LStrip(s) ==
    IF s # <<>> /\ IsSpace(s[1]) THEN LStrip(Tail(s)) ELSE s

RECURSIVE RStrip(_)
RStrip(s) ==
    IF s # <<>> /\ IsSpace(s[Len(s)]) THEN RStrip(SubSeq(s, 1, Len(s) - 1)) ELSE s

Strip(s) == LStrip(RStrip(s))

(***************************************************************************)
(* SetlistService.search_setlists: the three regular expressions.          *)
(* A match is reported by the position of its first character (0: no       *)
(* match), as re.search reports the leftmost match.                        *)
(***************************************************************************)
Min(S) == CHOOSE x \in S : \A y \in S : x <= y

\* the leftmost position of S, or 0 when there is none (re.search -> None)
Leftmost(S) == IF S = {} THEN 0 ELSE Min(S)

AllDigits(s) == \A i \in DOMAIN s : IsDigit(s[i])

\* \b at position i: exactly one of the characters before and at i is \w
WordBoundary(q, i) ==
    ((i > 1 /\ i - 1 <= Len(q)) /\ IsWord(q[i - 1])) # (i <= Len(q) /\ IsWord(q[i]))

\* the position after the longest run of [a-z] (IGNORECASE) starting at i
RECURSIVE SkipAlpha(_, _)
SkipAlpha(q, i) == IF i <= Len(q) /\ IsAlpha(q[i]) THEN SkipAlpha(q, i + 1) ELSE i

\* the position after the longest run of \s starting at i
RECURSIVE SkipSpace(_, _)
SkipSpace(q, i) == IF i <= Len(q) /\ IsSpace(q[i]) THEN SkipSpace(q, i + 1) ELSE i

\* Pattern 1: (\d{4})-(\d{2})-(\d{2}) matches at position i
DateAt(q, i) ==
    /\ i + 9 <= Len(q)
    /\ AllDigits(Slice(q, i, 4))
    /\ q[i + 4] = "-"
    /\ AllDigits(Slice(q, i + 5, 2))
    /\ q[i + 7] = "-"
    /\ AllDigits(Slice(q, i + 8, 2))

date_match(query) == Leftmost({i \in 1..Len(query) : DateAt(query, i)})

\* date_match.group(0)
date_group0(query) == Slice(query, date_match(query), 10)

MonthAbbrs ==
    << <<"j","a","n">>, <<"f","e","b">>, <<"m","a","r">>, <<"a","p","r">>,
       <<"m","a","y">>, <<"j","u","n">>, <<"j","u","l">>, <<"a","u","g">>,
       <<"s","e","p">>, <<"o","c","t">>, <<"n","o","v">>, <<"d","e","c">> >>

MonthNames == Range(MonthAbbrs)

Ordinals == { <<"s","t">>, <<"n","d">>, <<"r","d">>, <<"t","h">> }

\* Pattern 2 tried at position i:
\*   \b(jan|...|dec)[a-z]*\s+(\d{1,2})(?:st|nd|rd|th)?(?:,)?\s*(\d{4})?
\* Every quantifier is greedy and every part after the day is optional, so the
\* first path the matcher tries is the one it returns. year_str = <<>> stands
\* for group(3) being None.
MonthAt(q, i) ==
    LET afterName == SkipAlpha(q, i + 3)
        dayPos    == SkipSpace(q, afterName)
        dayLen    == IF dayPos + 1 <= Len(q) /\ IsDigit(q[dayPos + 1]) THEN 2 ELSE 1
        afterDay  == dayPos + dayLen
        afterOrd  == IF afterDay + 1 <= Len(q)
                        /\ Lower(Slice(q, afterDay, 2)) \in Ordinals
                     THEN afterDay + 2 ELSE afterDay
        afterCom  == IF afterOrd <= Len(q) /\ q[afterOrd] = ","
                     THEN afterOrd + 1 ELSE afterOrd
        yearPos   == SkipSpace(q, afterCom)
        hasYear   == yearPos + 3 <= Len(q) /\ AllDigits(Slice(q, yearPos, 4))
        stop      == IF hasYear THEN yearPos + 4 ELSE yearPos
    IN  IF /\ i + 2 <= Len(q)
           /\ WordBoundary(q, i)
           /\ Lower(Slice(q, i, 3)) \in MonthNames
           /\ dayPos > afterName
           /\ dayPos <= Len(q)
           /\ IsDigit(q[dayPos])
        THEN [matched   |-> TRUE,
              start     |-> i,
              group0    |-> SubSeq(q, i, stop - 1),
              month_str |-> Slice(q, i, 3),
              day_str   |-> Slice(q, dayPos, dayLen),
              year_str  |-> IF hasYear THEN Slice(q, yearPos, 4) ELSE <<>>]
        ELSE [matched |-> FALSE, start |-> 0, group0 |-> <<>>, month_str |-> <<>>,
              day_str |-> <<>>, year_str |-> <<>>]

\* re.search returned None
NoMatch ==
    [matched |-> FALSE, start |-> 0, group0 |-> <<>>, month_str |-> <<>>,
     day_str |-> <<>>, year_str |-> <<>>]

month_match(query) ==
    LET i == Leftmost({j \in 1..Len(query) : MonthAt(query, j).matched})
    IN  IF i = 0 THEN NoMatch ELSE MonthAt(query, i)

\* Pattern 3: \b(19|20)\d{2}\b matches at position i
YearAt(q, i) ==
    /\ i + 3 <= Len(q)
    /\ WordBoundary(q, i)
    /\ Slice(q, i, 2) \in { <<"1","9">>, <<"2","0">> }
    /\ AllDigits(Slice(q, i + 2, 2))
    /\ WordBoundary(q, i + 4)

year_match(query) == Leftmost({i \in 1..Len(query) : YearAt(query, i)})

\* year_match.group(0)
year_group0(query) == Slice(query, year_match(query), 4)

(***************************************************************************)
(* datetime.strptime(dt_str, "%b %d %Y") and dt.strftime("<year>-%m-%d").  *)
(***************************************************************************)
IsLeap(y) == (y % 4 = 0 /\ y % 100 # 0) \/ y % 400 = 0

DaysInMonth(m, y) ==
    IF m = 2 THEN (IF IsLeap(y) THEN 29 ELSE 28)
    ELSE IF m \in {4, 6, 9, 11} THEN 30 ELSE 31

\* %b: the month number of a three-letter abbreviation, case-insensitively
MonthNumber(month_str) ==
    CHOOSE m \in DOMAIN MonthAbbrs : MonthAbbrs[m] = Lower(month_str)

\* strptime raises ValueError unless the day is 1..31 and (year, month, day)
\* is a date datetime accepts (year >= 1, day within the month of that year)
strptime_ok(month_str, day_str, year_str) ==
    /\ ToInt(year_str) >= 1
    /\ ToInt(day_str) >= 1
    /\ ToInt(day_str) <= DaysInMonth(MonthNumber(month_str), ToInt(year_str))

\* dt.strftime(f"{year_text}-%m-%d") for the dt parsed from month_str, day_str
strftime(year_text, month_str, day_str) ==
    year_text \o <<"-">> \o Pad2(MonthNumber(month_str)) \o <<"-">> \o Pad2(ToInt(day_str))

\* the dummy year of line 77
DummyYear == <<"2", "0", "0", "0">>

(***************************************************************************)
(* SetlistService.search_setlists, lines 46-107: the parameter set.        *)
(* A Python dict is a function on the set of its keys.                     *)
(***************************************************************************)
\* def clean_query(q, match_str): return q.replace(match_str, "").strip()
clean_query(q, match_str) == Strip(StrReplace(q, match_str))

\* the except branch of lines 91-98
date_parse_fallback(query, page) ==
    IF year_match(query) # 0
    THEN ("p" :> page) @@ ("year" :> year_group0(query))
           @@ ("artistName" :> clean_query(query, year_group0(query)))
    ELSE ("p" :> page) @@ ("artistName" :> query)

\* the elif month_match branch of lines 69-98
month_branch(query, page, current_year) ==
    LET mm     == month_match(query)
        parseY == IF mm.year_str # <<>> THEN mm.year_str ELSE DummyYear
        outY   == IF mm.year_str # <<>> THEN mm.year_str ELSE Str4(current_year)
    IN  IF strptime_ok(mm.month_str, mm.day_str, parseY)
        THEN ("p" :> page) @@ ("date" :> strftime(outY, mm.month_str, mm.day_str))
               @@ ("artistName" :> clean_query(query, mm.group0))
        ELSE date_parse_fallback(query, page)

build_params(query, page, current_year) ==
    IF date_match(query) # 0
    THEN ("p" :> page) @@ ("date" :> date_group0(query))
           @@ ("artistName" :> clean_query(query, date_group0(query)))
    ELSE IF month_match(query).matched
    THEN month_branch(query, page, current_year)
    ELSE IF year_match(query) # 0
    THEN ("p" :> page) @@ ("year" :> year_group0(query))
           @@ ("artistName" :> clean_query(query, year_group0(query)))
    ELSE ("p" :> page) @@ ("artistName" :> query)


(***************************************************************************)
(* What an HTTP fetch can come back with: a 2xx answer whose JSON body     *)
(* parses (items: the entries of its result list), a non-2xx status, a     *)
(* timeout or network error raised by the client, or a body response.json()*)
(* cannot parse.                                                           *)
(***************************************************************************)
MaxItems == 2

NoResponse == [kind |-> "none", status |-> 0, items |-> <<>>]

ItemLists == {[i \in 1..n |-> i] : n \in 0..MaxItems}

Responses ==
    {[kind |-> "json", status |-> 200, items |-> l] : l \in ItemLists}
    \cup {[kind |-> "status", status |-> c, items |-> <<>>] : c \in {404, 500}}
    \cup {[kind |-> "timeout", status |-> 0, items |-> <<>>],
          [kind |-> "malformed", status |-> 200, items |-> <<>>]}

\* the fetch failed: non-2xx, timeout/network error or malformed payload
Failed(resp) == resp.kind \in {"status", "timeout", "malformed"}

\* setlists[:20], line 119
SetlistPageCap == 20

Take(l, n) == SubSeq(l, 1, IF Len(l) < n THEN Len(l) ELSE n)

(***************************************************************************)
(* The queries search_setlists is called with: up to MaxPieces pieces.     *)
(***************************************************************************)
MaxPieces == 3

QueryPieces ==
    { <<"P","h","i","s","h">>,
      <<"D","e","a","d">>,
      <<"P","e","a","r","l"," ","J","a","m">>,
      <<"G","r","a","t","e","f","u","l"," ","D","e","a","d">>,
      <<" ">>,
      <<"\f">>,
      <<"é">>,
      <<" ","2","0","2","3">>,
      <<" ","1","9","7","7">>,
      <<" ","1","9","9","1","-","0","9","-","2","0">>,
      <<" ","D","e","c","e","m","b","e","r"," ","3","1">>,
      <<" ","F","e","b"," ","2","9">>,
      <<" ","F","e","b"," ","3","1">>,
      <<" ","M","a","y">>,
      <<"s","t",",">> }

RECURSIVE Concat(_)
Concat(ss) == IF ss = <<>> THEN <<>> ELSE Head(ss) \o Concat(Tail(ss))

Queries == UNION {{Concat(ps) : ps \in [1..n -> QueryPieces]} : n \in 0..MaxPieces}

\* the years datetime.now().year is drawn from: a leap year and a common year
CurrentYears == {2024, 2026}

NoParams == <<>>

(***************************************************************************)
(* SetlistService.search_setlists as a state machine.                      *)
(***************************************************************************)
SlInit ==
    /\ sl_key \in {<<>>, <<"k">>}
    /\ sl_now \in CurrentYears
    /\ sl_query = <<>>
    /\ sl_page = 1
    /\ sl_pc = "idle"
    /\ sl_params = NoParams
    /\ sl_resp = NoResponse
    /\ sl_ret = <<>>
    /\ sl_raised = FALSE
    /\ sl_requests = 0

\* lines 39-41: no API key, return [] before any request
SearchSetlistsNoKey(query) ==
    /\ sl_pc = "idle"
    /\ sl_key = <<>>
    /\ sl_query' = query
    /\ sl_pc' = "done"
    /\ sl_ret' = <<>>
    /\ UNCHANGED <<sl_key, sl_now, sl_page, sl_params, sl_resp, sl_raised, sl_requests>>
    /\ UNCHANGED SlOthers

\* lines 43-110: parse the query, issue the request, suspend at the await
SearchSetlistsCall(query) ==
    /\ sl_pc = "idle"
    /\ sl_key # <<>>
    /\ sl_query' = query
    /\ sl_params' = build_params(query, sl_page, sl_now)
    /\ sl_requests' = sl_requests + 1
    /\ sl_pc' = "awaiting"
    /\ UNCHANGED <<sl_key, sl_now, sl_page, sl_resp, sl_ret, sl_raised>>
    /\ UNCHANGED SlOthers

\* lines 112-123: 404 gives [], raise_for_status()/json() failures are caught
\* by the except of line 121, a parsed body gives its first 20 entries
SearchSetlistsReturn(resp) ==
    /\ sl_pc = "awaiting"
    /\ sl_resp' = resp
    /\ sl_ret' = IF resp.kind = "json" THEN Take(resp.items, SetlistPageCap) ELSE <<>>
    /\ sl_raised' = FALSE
    /\ sl_pc' = "done"
    /\ UNCHANGED <<sl_key, sl_now, sl_query, sl_page, sl_params, sl_requests>>
    /\ UNCHANGED SlOthers

SlNext ==
    \/ \E query \in Queries : SearchSetlistsNoKey(query)
    \/ \E query \in Queries : SearchSetlistsCall(query)
    \/ \E resp \in Responses : SearchSetlistsReturn(resp)


\* the service is not called
SlIdle ==
    /\ sl_key = <<"k">>
    /\ sl_now = 2026
    /\ sl_query = <<>>
    /\ sl_page = 1
    /\ sl_pc = "idle"
    /\ sl_params = NoParams
    /\ sl_resp = NoResponse
    /\ sl_ret = <<>>
    /\ sl_raised = FALSE
    /\ sl_requests = 0

(***************************************************************************)
(* JamendoService.                                                         *)
(***************************************************************************)
\* the provider tags of the canonical ids (lines 73, 78, 140, 198)
\* d.get(k, default)
Get(d, k, default) == IF k \in DOMAIN d THEN d[k] ELSE default

\* the dicts that hold key k with a value of S, or do not hold it
Optional(k, S) == {<<>>} \cup {k :> v : v \in S}

TagJm == <<"j","m","_">>

TagJmArtist == <<"j","m","_","a","r","t","i","s","t","_">>

\* clean_id = track_id.replace("jm_", "")   (lines 51, 105, 211)
clean_id(id) == StrReplace(id, TagJm)

\* clean_id = artist_id.replace("jm_artist_", "").replace("jm_", "")   (line 165)
clean_artist_id(id) == StrReplace(StrReplace(id, TagJmArtist), TagJm)

\* the ids the get_* methods are called with: up to MaxIdPieces pieces
MaxIdPieces == 3

IdPieces == { TagJm, TagJmArtist, <<"1","2">>, <<"7">> }

JmIds == UNION {{Concat(ps) : ps \in [1..n -> IdPieces]} : n \in 0..MaxIdPieces}

JmQueries == { <<"j","a","z","z">> }

SearchOps == {"search_tracks", "search_albums", "search_artists"}

\* the endpoint each search method passes to _api_request (lines 39, 95, 155)
SearchEndpoint(op) ==
    IF op = "search_tracks" THEN "/tracks/"
    ELSE IF op = "search_albums" THEN "/albums/"
    ELSE "/artists/"

\* one _api_request call: the endpoint and the id / search / audioformat params
Request(endpoint, id, search, audioformat) ==
    [endpoint |-> endpoint, id |-> id, search |-> search, audioformat |-> audioformat]

\* return values: a list of formatted entities, one entity with its tracks,
\* a stream URL, or None
Pending == [kind |-> "pending", items |-> <<>>]

None == [kind |-> "none", items |-> <<>>]

ListOf(items) == [kind |-> "list", items |-> items]

Entity(items) == [kind |-> "entity", items |-> items]

Url == [kind |-> "url", items |-> <<>>]

\* the str '' as a return value
EmptyStr == [kind |-> "empty_str", items |-> <<>>]

\* results[0] of a /tracks/ answer: audiodownload and audio, each missing,
\* '' or a URL
StreamFieldValues == { <<>>, <<"u">> }

FirstResults ==
    { d @@ a : d \in Optional("audiodownload", StreamFieldValues),
               a \in Optional("audio", StreamFieldValues) }

\* results[0].get("audiodownload") or results[0].get("audio")  (lines 221, 232):
\* a truthy audiodownload, else whatever get("audio") gives, None and ''
\* included
first_url(first) ==
    IF Get(first, "audiodownload", <<>>) # <<>> THEN Url
    ELSE IF "audio" \notin DOMAIN first THEN None
    ELSE IF first["audio"] = <<>> THEN EmptyStr
    ELSE Url

JmIdle ==
    /\ jm_op = "none"
    /\ jm_arg = <<>>
    /\ jm_pc = "idle"
    /\ jm_log = <<>>
    /\ jm_resp = NoResponse
    /\ jm_ret = Pending
    /\ jm_raised = FALSE

\* search_tracks / search_albums / search_artists up to the await of
\* _api_request (lines 39-45, 95-99, 155-159)
SearchCall(op, query) ==
    /\ jm_pc = "idle"
    /\ jm_op' = op
    /\ jm_arg' = query
    /\ jm_log' = Append(jm_log, Request(SearchEndpoint(op), <<>>, query, 
                                        IF op = "search_tracks" THEN "flac" ELSE ""))
    /\ jm_pc' = "await1"
    /\ UNCHANGED <<jm_resp, jm_ret, jm_raised>>
    /\ UNCHANGED JmOthers

\* _api_request returns or raises (lines 31-33); the search methods have no
\* try block, so what it raises leaves the method (lines 46, 100, 160)
SearchReturn(resp) ==
    /\ jm_pc = "await1"
    /\ jm_op \in SearchOps
    /\ jm_resp' = resp
    /\ IF Failed(resp)
       THEN jm_raised' = TRUE /\ jm_ret' = jm_ret
       ELSE jm_raised' = FALSE /\ jm_ret' = ListOf(resp.items)
    /\ jm_pc' = "done"
    /\ UNCHANGED <<jm_op, jm_arg, jm_log>>
    /\ UNCHANGED JmOthers

\* get_track up to the await (lines 50-56)
GetTrackCall(id) ==
    /\ jm_pc = "idle"
    /\ jm_op' = "get_track"
    /\ jm_arg' = id
    /\ jm_log' = Append(jm_log, Request("/tracks/", clean_id(id), <<>>, "flac"))
    /\ jm_pc' = "await1"
    /\ UNCHANGED <<jm_resp, jm_ret, jm_raised>>
    /\ UNCHANGED JmOthers

\* get_track after the await (lines 57-63)
GetTrackReturn(resp) ==
    /\ jm_pc = "await1"
    /\ jm_op = "get_track"
    /\ jm_resp' = resp
    /\ jm_ret' = IF Failed(resp) \/ resp.items = <<>> THEN None
                 ELSE Entity(<<Head(resp.items)>>)
    /\ jm_pc' = "done"
    /\ UNCHANGED <<jm_op, jm_arg, jm_log, jm_raised>>
    /\ UNCHANGED JmOthers

\* get_album up to the first await (lines 104-108)
GetAlbumCall(id) ==
    /\ jm_pc = "idle"
    /\ jm_op' = "get_album"
    /\ jm_arg' = id
    /\ jm_log' = Append(jm_log, Request("/albums/", clean_id(id), <<>>, ""))
    /\ jm_pc' = "await1"
    /\ UNCHANGED <<jm_resp, jm_ret, jm_raised>>
    /\ UNCHANGED JmOthers

\* get_album without the `if not albums: return None` of lines 110-111
GetAlbumHeader_no_guard(resp) ==
    /\ jm_pc = "await1"
    /\ jm_op = "get_album"
    /\ jm_resp' = resp
    /\ IF Failed(resp)
       THEN /\ jm_ret' = None
            /\ jm_pc' = "done"
            /\ jm_log' = jm_log
       ELSE /\ jm_ret' = jm_ret
            /\ jm_pc' = "await2"
            /\ jm_log' = Append(jm_log, Request("/albums/tracks/", clean_id(jm_arg), <<>>, "flac"))
    /\ UNCHANGED <<jm_op, jm_arg, jm_raised>>
    /\ UNCHANGED JmOthers

\* get_album between the awaits (lines 109-119, 133-135)
GetAlbumHeader(resp) ==
    /\ jm_pc = "await1"
    /\ jm_op = "get_album"
    /\ jm_resp' = resp
    /\ IF Failed(resp) \/ resp.items = <<>>
       THEN /\ jm_ret' = None
            /\ jm_pc' = "done"
            /\ jm_log' = jm_log
       ELSE /\ jm_ret' = jm_ret
            /\ jm_pc' = "await2"
            /\ jm_log' = Append(jm_log, Request("/albums/tracks/", clean_id(jm_arg), <<>>, "flac"))
    /\ UNCHANGED <<jm_op, jm_arg, jm_raised>>
    /\ UNCHANGED JmOthers

\* get_album after the second await (lines 121-135)
GetAlbumTracks(resp) ==
    /\ jm_pc = "await2"
    /\ jm_op = "get_album"
    /\ jm_resp' = resp
    /\ jm_ret' = IF Failed(resp) THEN None ELSE Entity(resp.items)
    /\ jm_pc' = "done"
    /\ UNCHANGED <<jm_op, jm_arg, jm_log, jm_raised>>
    /\ UNCHANGED JmOthers

\* get_artist up to the first await (lines 164-168)
GetArtistCall(id) ==
    /\ jm_pc = "idle"
    /\ jm_op' = "get_artist"
    /\ jm_arg' = id
    /\ jm_log' = Append(jm_log, Request("/artists/", clean_artist_id(id), <<>>, ""))
    /\ jm_pc' = "await1"
    /\ UNCHANGED <<jm_resp, jm_ret, jm_raised>>
    /\ UNCHANGED JmOthers

\* get_artist between the awaits (lines 169-180, 191-193)
GetArtistHeader(resp) ==
    /\ jm_pc = "await1"
    /\ jm_op = "get_artist"
    /\ jm_resp' = resp
    /\ IF Failed(resp) \/ resp.items = <<>>
       THEN /\ jm_ret' = None
            /\ jm_pc' = "done"
            /\ jm_log' = jm_log
       ELSE /\ jm_ret' = jm_ret
            /\ jm_pc' = "await2"
            /\ jm_log' = Append(jm_log, Request("/artists/tracks/", clean_artist_id(jm_arg), <<>>, "flac"))
    /\ UNCHANGED <<jm_op, jm_arg, jm_raised>>
    /\ UNCHANGED JmOthers

\* get_artist after the second await (lines 182-193)
GetArtistTracks(resp) ==
    /\ jm_pc = "await2"
    /\ jm_op = "get_artist"
    /\ jm_resp' = resp
    /\ jm_ret' = IF Failed(resp) THEN None ELSE Entity(resp.items)
    /\ jm_pc' = "done"
    /\ UNCHANGED <<jm_op, jm_arg, jm_log, jm_raised>>
    /\ UNCHANGED JmOthers

\* get_stream_url up to its first await: the FLAC request when prefer_flac,
\* else the MP3 request at once (lines 210-218, 226-229)
GetStreamUrlCall(id, prefer_flac) ==
    /\ jm_pc = "idle"
    /\ jm_op' = "get_stream_url"
    /\ jm_arg' = id
    /\ jm_log' = Append(jm_log, Request("/tracks/", clean_id(id), <<>>,
                                        IF prefer_flac THEN "flac" ELSE "mp32"))
    /\ jm_pc' = IF prefer_flac THEN "await1" ELSE "await2"
    /\ UNCHANGED <<jm_resp, jm_ret, jm_raised>>
    /\ UNCHANGED JmOthers

\* get_stream_url after the FLAC request (lines 219-229): first is results[0]
\* of a non-empty answer; only a truthy url is returned (line 222)
GetStreamUrlFlac(resp, first) ==
    /\ jm_pc = "await1"
    /\ jm_op = "get_stream_url"
    /\ jm_resp' = resp
    /\ IF Failed(resp)
       THEN /\ jm_ret' = None
            /\ jm_pc' = "done"
            /\ jm_log' = jm_log
       ELSE IF resp.items # <<>> /\ first_url(first) = Url
       THEN /\ jm_ret' = Url
            /\ jm_pc' = "done"
            /\ jm_log' = jm_log
       ELSE /\ jm_ret' = jm_ret
            /\ jm_pc' = "await2"
            /\ jm_log' = Append(jm_log, Request("/tracks/", clean_id(jm_arg), <<>>, "mp32"))
    /\ UNCHANGED <<jm_op, jm_arg, jm_raised>>
    /\ UNCHANGED JmOthers

\* get_stream_url after the MP3 request (lines 230-237): the value of the
\* `or` of line 232 is returned as it is, a URL, '' or None
GetStreamUrlMp3(resp, first) ==
    /\ jm_pc = "await2"
    /\ jm_op = "get_stream_url"
    /\ jm_resp' = resp
    /\ jm_ret' = IF ~Failed(resp) /\ resp.items # <<>> THEN first_url(first) ELSE None
    /\ jm_pc' = "done"
    /\ UNCHANGED <<jm_op, jm_arg, jm_log, jm_raised>>
    /\ UNCHANGED JmOthers

JmNext ==
    \/ \E op \in SearchOps, query \in JmQueries : SearchCall(op, query)
    \/ \E resp \in Responses : SearchReturn(resp)
    \/ \E id \in JmIds : GetTrackCall(id)
    \/ \E resp \in Responses : GetTrackReturn(resp)
    \/ \E id \in JmIds : GetAlbumCall(id)
    \/ \E resp \in Responses : GetAlbumHeader(resp)
    \/ \E resp \in Responses : GetAlbumTracks(resp)
    \/ \E id \in JmIds : GetArtistCall(id)
    \/ \E resp \in Responses : GetArtistHeader(resp)
    \/ \E resp \in Responses : GetArtistTracks(resp)
    \/ \E id \in JmIds, prefer_flac \in BOOLEAN : GetStreamUrlCall(id, prefer_flac)
    \/ \E resp \in Responses, first \in FirstResults : GetStreamUrlFlac(resp, first)
    \/ \E resp \in Responses, first \in FirstResults : GetStreamUrlMp3(resp, first)


(***************************************************************************)
(* ListenBrainzService: set_token, submit_now_playing, submit_listen.      *)
(* Each task is a request handler with its own user token; it calls        *)
(* set_token and then one of the submit methods on the shared singleton    *)
(* (line 241).  set_token is a plain method; a submit method runs without  *)
(* suspension from its entry to the await of client.post, where the        *)
(* headers have already been built from self.token.                        *)
(***************************************************************************)
NumTasks == 2

Tasks == 1..NumTasks

UserTokens == { <<>>, <<"A">>, <<"B">> }

\* LISTENBRAINZ_TOKEN of the environment (line 15)
EnvTokens == { <<>>, <<"E">> }

\* is_configured that takes any token, the empty one included
is_configured_any(token) == token = token

\* is_configured (lines 31-33)
is_configured(token) == token # <<>>

\* _get_headers (lines 35-40): the Authorization header carries self.token
get_headers(token) == [Authorization |-> <<"T","o","k","e","n"," ">> \o token]

LbInit ==
    /\ lb_token \in EnvTokens
    /\ lb_user \in [Tasks -> UserTokens]
    /\ lb_pc = [t \in Tasks |-> "start"]
    /\ lb_op = [t \in Tasks |-> "none"]
    /\ lb_sent = <<>>
    /\ lb_ret = [t \in Tasks |-> "pending"]

LbIdle ==
    /\ lb_token = <<>>
    /\ lb_user = [t \in Tasks |-> <<>>]
    /\ lb_pc = [t \in Tasks |-> "start"]
    /\ lb_op = [t \in Tasks |-> "none"]
    /\ lb_sent = <<>>
    /\ lb_ret = [t \in Tasks |-> "pending"]

\* set_token (lines 27-29)
SetToken(t) ==
    /\ lb_pc[t] = "start"
    /\ lb_token' = lb_user[t]
    /\ lb_pc' = [lb_pc EXCEPT ![t] = "token_set"]
    /\ UNCHANGED <<lb_user, lb_op, lb_sent, lb_ret>>
    /\ UNCHANGED LbOthers

\* submit_now_playing up to the await of client.post (lines 48-62)
SubmitNowPlaying(t) ==
    /\ lb_pc[t] = "token_set"
    /\ lb_op' = [lb_op EXCEPT ![t] = "submit_now_playing"]
    /\ IF ~is_configured(lb_token)
       THEN /\ lb_ret' = [lb_ret EXCEPT ![t] = "False"]
            /\ lb_pc' = [lb_pc EXCEPT ![t] = "done"]
            /\ lb_sent' = lb_sent
       ELSE /\ lb_sent' = Append(lb_sent, [task        |-> t,
                                           listen_type |-> "playing_now",
                                           headers     |-> get_headers(lb_token)])
            /\ lb_pc' = [lb_pc EXCEPT ![t] = "awaiting"]
            /\ lb_ret' = lb_ret
    /\ UNCHANGED <<lb_token, lb_user>>
    /\ UNCHANGED LbOthers

\* submit_listen up to the await of client.post (lines 84-101)
SubmitListen(t) ==
    /\ lb_pc[t] = "token_set"
    /\ lb_op' = [lb_op EXCEPT ![t] = "submit_listen"]
    /\ IF ~is_configured(lb_token)
       THEN /\ lb_ret' = [lb_ret EXCEPT ![t] = "False"]
            /\ lb_pc' = [lb_pc EXCEPT ![t] = "done"]
            /\ lb_sent' = lb_sent
       ELSE /\ lb_sent' = Append(lb_sent, [task        |-> t,
                                           listen_type |-> "single",
                                           headers     |-> get_headers(lb_token)])
            /\ lb_pc' = [lb_pc EXCEPT ![t] = "awaiting"]
            /\ lb_ret' = lb_ret
    /\ UNCHANGED <<lb_token, lb_user>>
    /\ UNCHANGED LbOthers

\* after the await (lines 64-73 and 103-112): True on status 200, else False
SubmitReturn(t, resp) ==
    /\ lb_pc[t] = "awaiting"
    /\ lb_ret' = [lb_ret EXCEPT ![t] =
                    IF resp.kind \in {"json", "malformed"} /\ resp.status = 200
                    THEN "True" ELSE "False"]
    /\ lb_pc' = [lb_pc EXCEPT ![t] = "done"]
    /\ UNCHANGED <<lb_token, lb_user, lb_op, lb_sent>>
    /\ UNCHANGED LbOthers

\* validate_token up to the await of client.get (lines 215-222); the request
\* is logged with the name of its endpoint
ValidateToken(t) ==
    /\ lb_pc[t] = "token_set"
    /\ lb_op' = [lb_op EXCEPT ![t] = "validate_token"]
    /\ IF ~is_configured(lb_token)
       THEN /\ lb_ret' = [lb_ret EXCEPT ![t] = "None"]
            /\ lb_pc' = [lb_pc EXCEPT ![t] = "done"]
            /\ lb_sent' = lb_sent
       ELSE /\ lb_sent' = Append(lb_sent, [task        |-> t,
                                           listen_type |-> "validate-token",
                                           headers     |-> get_headers(lb_token)])
            /\ lb_pc' = [lb_pc EXCEPT ![t] = "awaiting_validate"]
            /\ lb_ret' = lb_ret
    /\ UNCHANGED <<lb_token, lb_user>>
    /\ UNCHANGED LbOthers

\* validate_token after the await (lines 224-233): the user name when the
\* status is 200 and the body says valid, else None
ValidateTokenReturn(t, resp, valid) ==
    /\ lb_pc[t] = "awaiting_validate"
    /\ lb_ret' = [lb_ret EXCEPT ![t] =
                    IF resp.kind = "json" /\ resp.status = 200 /\ valid
                    THEN "user_name" ELSE "None"]
    /\ lb_pc' = [lb_pc EXCEPT ![t] = "done"]
    /\ UNCHANGED <<lb_token, lb_user, lb_op, lb_sent>>
    /\ UNCHANGED LbOthers

\* the answers the submit methods tell apart: status 200, another status, an error
SubmitResponses == {r \in Responses : r.items = <<>>}

LbNext ==
    \/ \E t \in Tasks : SetToken(t)
    \/ \E t \in Tasks : SubmitNowPlaying(t)
    \/ \E t \in Tasks : SubmitListen(t)
    \/ \E t \in Tasks, resp \in SubmitResponses : SubmitReturn(t, resp)
    \/ \E t \in Tasks : ValidateToken(t)
    \/ \E t \in Tasks, resp \in SubmitResponses, valid \in BOOLEAN :
            ValidateTokenReturn(t, resp, valid)

(***************************************************************************)
(* ListenBrainzService.get_recommendations (lines 148-186).                *)
(***************************************************************************)
\* payload.get("mbids", [])[:15], line 171
MaxRecs == 15

\* the attributes of the MusicBrainzService singleton (class body, lines 12-133)
MusicBrainzServiceAttrs ==
    {"MB_API", "CAA_API", "USER_AGENT", "client", "lookup_by_isrc", "_get_cover_art", "close"}

\* recording ids: none (None or ""), one the registry knows, one it does not
MbidNone == <<>>

MbidKnown == <<"k","n","o","w","n">>

MbidUnknown == <<"u","n","k","n","o","w","n">>

Mbids == {MbidNone, MbidKnown, MbidUnknown}

\* the registry has a recording for this id
Resolves(mbid) == mbid = MbidKnown

\* upstream payloads: a free head of up to MaxHead ids, then a run of one id
MaxHead == 2

MaxRun == 15

RecPayloads ==
    {h \o [i \in 1..n |-> m] :
        h \in UNION {[1..k -> Mbids] : k \in 0..MaxHead}, n \in 0..MaxRun, m \in Mbids}

Counts == {1, 25}

\* first_mbids without the [:15] slice of line 171
first_mbids_unsliced(payload) == payload

\* mbids = [rec.get("recording_mbid") for rec in payload.get("mbids", [])[:15]]
first_mbids(payload) == Take(payload, MaxRecs)

\* lines 178-180: the resolved track, tagged
Recommendation(mbid) == [mbid |-> mbid, type |-> "recommendation", source |-> "listenbrainz"]

RecInit ==
    /\ rec_count \in Counts
    /\ rec_pc = "idle"
    /\ rec_resp = NoResponse
    /\ rec_payload = <<>>
    /\ rec_mbids = <<>>
    /\ rec_i = 1
    /\ rec_out = <<>>
    /\ rec_lookups = 0
    /\ rec_ret = <<>>

RecIdle ==
    /\ rec_count = 25
    /\ rec_pc = "idle"
    /\ rec_resp = NoResponse
    /\ rec_payload = <<>>
    /\ rec_mbids = <<>>
    /\ rec_i = 1
    /\ rec_out = <<>>
    /\ rec_lookups = 0
    /\ rec_ret = <<>>

\* lines 157-161: the request for the user's recommendations
GetRecommendationsCall ==
    /\ rec_pc = "idle"
    /\ rec_pc' = "awaiting"
    /\ UNCHANGED <<rec_count, rec_resp, rec_payload, rec_mbids, rec_i, rec_out,
                   rec_lookups, rec_ret>>
    /\ UNCHANGED RecOthers

\* lines 163-165 and 184-186: a status other than 200, a timeout or a body
\* that does not parse gives []
GetRecommendationsFailed(resp) ==
    /\ rec_pc = "awaiting"
    /\ Failed(resp)
    /\ rec_resp' = resp
    /\ rec_ret' = <<>>
    /\ rec_pc' = "done"
    /\ UNCHANGED <<rec_count, rec_payload, rec_mbids, rec_i, rec_out, rec_lookups>>
    /\ UNCHANGED RecOthers

\* lines 167-171: the payload arrives, the first 15 ids are kept
GetRecommendationsPayload(payload) ==
    /\ rec_pc = "awaiting"
    /\ rec_resp' = [kind |-> "json", status |-> 200, items |-> <<>>]
    /\ rec_payload' = payload
    /\ rec_mbids' = first_mbids(payload)
    /\ rec_i' = 1
    /\ rec_out' = <<>>
    /\ rec_pc' = "loop"
    /\ UNCHANGED <<rec_count, rec_lookups, rec_ret>>
    /\ UNCHANGED RecOthers

\* line 174: if not mbid: continue
LoopSkip ==
    /\ rec_pc = "loop"
    /\ rec_i <= Len(rec_mbids)
    /\ rec_mbids[rec_i] = MbidNone
    /\ rec_i' = rec_i + 1
    /\ UNCHANGED <<rec_count, rec_pc, rec_resp, rec_payload, rec_mbids, rec_out,
                   rec_lookups, rec_ret>>
    /\ UNCHANGED RecOthers

\* lines 176-180: musicbrainz_service.lookup_recording(mbid).  The singleton
\* has no attribute lookup_recording, so the expression raises AttributeError
\* before any request; the except of line 184 returns [].  Were the method
\* there, the entry would be tagged and appended when the id resolves.
LoopLookup ==
    /\ rec_pc = "loop"
    /\ rec_i <= Len(rec_mbids)
    /\ rec_mbids[rec_i] # MbidNone
    /\ rec_lookups' = rec_lookups + 1
    /\ IF "lookup_recording" \in MusicBrainzServiceAttrs
       THEN /\ rec_out' = IF Resolves(rec_mbids[rec_i])
                          THEN Append(rec_out, Recommendation(rec_mbids[rec_i]))
                          ELSE rec_out
            /\ rec_i' = rec_i + 1
            /\ UNCHANGED <<rec_pc, rec_ret>>
       ELSE /\ rec_ret' = <<>>
            /\ rec_pc' = "done"
            /\ UNCHANGED <<rec_out, rec_i>>
    /\ UNCHANGED <<rec_count, rec_resp, rec_payload, rec_mbids>>
    /\ UNCHANGED RecOthers

\* line 182: return recommendations
LoopEnd ==
    /\ rec_pc = "loop"
    /\ rec_i > Len(rec_mbids)
    /\ rec_ret' = rec_out
    /\ rec_pc' = "done"
    /\ UNCHANGED <<rec_count, rec_resp, rec_payload, rec_mbids, rec_i, rec_out, rec_lookups>>
    /\ UNCHANGED RecOthers

RecNext ==
    \/ GetRecommendationsCall
    \/ \E resp \in Responses : GetRecommendationsFailed(resp)
    \/ \E payload \in RecPayloads : GetRecommendationsPayload(payload)
    \/ LoopSkip
    \/ LoopLookup
    \/ LoopEnd

(***************************************************************************)
(* MusicBrainzService.lookup_by_isrc (lines 25-99) and _get_cover_art.     *)
(***************************************************************************)
\* isrc.startswith(('dz_', 'ytm_', 'LINK:')), musicbrainz_service.py line 39
IsrcSkipPrefixes ==
    { <<"d","z","_">>, <<"y","t","m","_">>, <<"L","I","N","K",":">> }

\* track["isrc"].startswith(("dz_", "ytm_", "LINK:", "pod_")),
\* listenbrainz_service.py line 133
ScrobbleSkipPrefixes ==
    { <<"d","z","_">>, <<"y","t","m","_">>, <<"L","I","N","K",":">>, <<"p","o","d","_">> }

MaxIsrcPieces == 2

IsrcPieces ==
    { <<"d","z","_">>, <<"y","t","m","_">>, <<"L","I","N","K",":">>, <<"p","o","d","_">>,
      <<"U","S","1">> }

Isrcs == UNION {{Concat(ps) : ps \in [1..n -> IsrcPieces]} : n \in 0..MaxIsrcPieces}

ReleaseIds == { <<>>, <<"r","e","l">> }

\* release.get("id", "") of each release of the first recording
ReleaseLists == {<<>>} \cup {<<r>> : r \in ReleaseIds}

Covers == { <<>>, <<"u","r","l">> }

MbPending == [kind |-> "pending", release_id |-> <<>>, cover_art_url |-> <<>>]

MbNone == [kind |-> "none", release_id |-> <<>>, cover_art_url |-> <<>>]

Enrichment(release_id, cover) ==
    [kind |-> "enrichment", release_id |-> release_id, cover_art_url |-> cover]

MbIdle ==
    /\ mb_isrc = <<>>
    /\ mb_pc = "idle"
    /\ mb_requests = <<>>
    /\ mb_resp = NoResponse
    /\ mb_result = MbPending
    /\ mb_ret = MbPending

\* line 39: the identifiers lookup_by_isrc answers without a request
skip_isrc(isrc) == isrc = <<>> \/ StartsWithAny(isrc, IsrcSkipPrefixes)

\* lines 37-48: return None for a skipped identifier, else issue the lookup
LookupByIsrcCall(isrc) ==
    /\ mb_pc = "idle"
    /\ mb_isrc' = isrc
    /\ IF skip_isrc(isrc)
       THEN /\ mb_ret' = MbNone
            /\ mb_pc' = "done"
            /\ mb_requests' = mb_requests
       ELSE /\ mb_requests' = Append(mb_requests, [api |-> "isrc", id |-> isrc])
            /\ mb_pc' = "await_isrc"
            /\ mb_ret' = mb_ret
    /\ UNCHANGED <<mb_resp, mb_result>>
    /\ UNCHANGED MbOthers

\* lines 50-95 and 97-99, after the recording lookup.  resp.items are the
\* recordings of the answer, releases the release ids of the first recording.
\* A status other than 200, an error, no recording or no release gives None;
\* else the first release is taken, and the cover-art fetch is issued only
\* for a non-empty release id.
LookupByIsrcReturn(resp, releases) ==
    /\ mb_pc = "await_isrc"
    /\ mb_resp' = resp
    /\ IF Failed(resp) \/ resp.items = <<>> \/ releases = <<>>
       THEN /\ mb_ret' = MbNone
            /\ mb_pc' = "done"
            /\ UNCHANGED <<mb_requests, mb_result>>
       ELSE /\ mb_result' = Enrichment(Head(releases), <<>>)
            /\ IF Head(releases) # <<>>
               THEN /\ mb_requests' = Append(mb_requests, [api |-> "cover", id |-> Head(releases)])
                    /\ mb_pc' = "await_cover"
                    /\ mb_ret' = mb_ret
               ELSE /\ mb_requests' = mb_requests
                    /\ mb_pc' = "done"
                    /\ mb_ret' = Enrichment(Head(releases), <<>>)
    /\ UNCHANGED mb_isrc
    /\ UNCHANGED MbOthers

\* _get_cover_art returns a URL or None (lines 101-129); lines 91-95
GetCoverArtReturn(cover) ==
    /\ mb_pc = "await_cover"
    /\ mb_ret' = Enrichment(mb_result.release_id, cover)
    /\ mb_result' = Enrichment(mb_result.release_id, cover)
    /\ mb_pc' = "done"
    /\ UNCHANGED <<mb_isrc, mb_requests, mb_resp>>
    /\ UNCHANGED MbOthers

MbNext ==
    \/ \E isrc \in Isrcs : LookupByIsrcCall(isrc)
    \/ \E resp \in Responses, releases \in ReleaseLists : LookupByIsrcReturn(resp, releases)
    \/ \E cover \in Covers : GetCoverArtReturn(cover)

(***************************************************************************)
(* The formatters.  Python dicts are functions from keys to values; a key  *)
(* that the dict does not hold is outside the DOMAIN.                      *)
(***************************************************************************)
\* Python's None
PyNone == [none |-> TRUE]

\* a str value and a list value of the same field
Str(s) == [type |-> "str", val |-> s]

List(l) == [type |-> "list", val |-> l]

\* ", ".join(l)
RECURSIVE Join(_)
Join(l) ==
    IF l = <<>> THEN <<>>
    ELSE IF Len(l) = 1 THEN l[1]
    ELSE l[1] \o <<",", " ">> \o Join(Tail(l))

ArtistValues ==
    { Str(<<"X">>), List(<<>>), List(<< <<"X">> >>), List(<< <<"X">>, <<"Y">> >>) }

DurationValues == {0, 1000, 61000}

AlbumValues == { <<>>, <<"L","P">> }

TrackIsrcValues ==
    { <<>>, <<"U","S","1">>, <<"d","z","_","1">>, <<"y","t","m","_","1">>,
      <<"L","I","N","K",":","1">>, <<"p","o","d","_","1">> }

TrackNumberValues == {0, 3}

\* the canonical tracks handed to submit_now_playing and submit_listen
CanonicalTracks ==
    { a @@ n @@ d @@ l @@ i @@ t :
        a \in Optional("artists", ArtistValues),
        n \in Optional("name", {<<"T">>}),
        d \in Optional("duration_ms", DurationValues),
        l \in Optional("album", AlbumValues),
        i \in Optional("isrc", TrackIsrcValues),
        t \in Optional("track_number", TrackNumberValues) }

Unknown == <<"U","n","k","n","o","w","n">>

\* _format_track_payload, lines 114-146
format_track_payload(track) ==
    LET artist0 == Get(track, "artists", Str(<<>>))
        artist  == IF artist0.type = "list" THEN Join(artist0.val) ELSE artist0.val
        info1   == IF Get(track, "duration_ms", 0) # 0
                   THEN "duration_ms" :> track["duration_ms"] ELSE <<>>
        info2   == IF Get(track, "album", <<>>) # <<>>
                   THEN info1 @@ ("release_name" :> track["album"]) ELSE info1
        info3   == IF /\ Get(track, "isrc", <<>>) # <<>>
                      /\ ~StartsWithAny(track["isrc"], ScrobbleSkipPrefixes)
                   THEN info2 @@ ("isrc" :> track["isrc"]) ELSE info2
        additional_info ==
                   IF Get(track, "track_number", 0) # 0
                   THEN info3 @@ ("tracknumber" :> track["track_number"]) ELSE info3
    IN  "track_metadata" :>
            (   "artist_name" :> artist
             @@ "track_name" :> Get(track, "name", Unknown)
             @@ "additional_info" :>
                    (IF additional_info # <<>> THEN additional_info ELSE PyNone) )

\* str(n) of a non-negative int
RECURSIVE IntStr(_)
IntStr(n) ==
    IF n < 10 THEN <<DigitSeq[n + 1]>>
    ELSE IntStr(n \div 10) \o <<DigitSeq[(n % 10) + 1]>>

MaxSets == 2

\* the songs of a set: dicts with or without a name
SongLists ==
    { << "name" :> <<"S","1">> >>,
      << "name" :> <<"S","1">>, <<>> >> }

SetNameValues == { <<>>, <<"A","c","o","u","s","t","i","c">> }

EncoreValues == {0, 1}

\* the entries of item["sets"]["set"]
SetValues ==
    { n @@ e @@ g :
        n \in Optional("name", SetNameValues),
        e \in Optional("encore", EncoreValues),
        g \in Optional("song", SongLists) }

SetLists == UNION { [1..k -> SetValues] : k \in 0..MaxSets }

SetlistArtists == { <<"P","h","i","s","h">>, <<"D","e","a","d">> }

\* the setlist documents of Setlist.fm, as far as the formatters read their
\* sets, artist name and id (venue, city, eventDate and url are left out)
SetlistItems ==
    { i @@ a @@ g :
        i \in {"id" :> <<"a","1">>},
        a \in {"artist" :> ("name" :> n) : n \in SetlistArtists},
        g \in {<<>>} \cup {"sets" :> ("set" :> l) : l \in SetLists} }

\* item.get("sets", {}).get("set", [])
SetsOf(item) == Get(Get(item, "sets", <<>>), "set", <<>>)

\* song_count of _format_setlist (lines 162-164)
RECURSIVE song_count(_)
song_count(sets) ==
    IF sets = <<>> THEN 0
    ELSE Len(Get(Head(sets), "song", <<>>)) + song_count(Tail(sets))

TagSetlist == <<"s","e","t","l","i","s","t","_">>

\* _format_setlist (lines 143-184): the fields that do not depend on the
\* venue, the city, the event date and the url of the document
format_setlist(item) ==
    LET artist == Get(item, "artist", <<>>)
        count  == song_count(SetsOf(item))
    IN     "id" :> (TagSetlist \o Get(item, "id", <<>>))
        @@ "type" :> "setlist"
        @@ "artists" :> Get(artist, "name", <<>>)
        @@ "song_count" :> count
        @@ "setlist_id" :> Get(item, "id", <<>>)
        @@ "source" :> "setlist.fm"
        @@ "total_tracks" :> count

Encore == <<"E","n","c","o","r","e">>

\* set_name with the encore flag consulted only for a set without a name
set_name_name_first(setlist_set, set_idx) ==
    IF Get(setlist_set, "name", <<>>) # <<>> THEN setlist_set["name"]
    ELSE IF Get(setlist_set, "encore", 0) # 0 THEN Encore
    ELSE <<"S","e","t"," ">> \o IntStr(set_idx + 1)

\* set_name of lines 194-196; set_idx counts from 0
set_name(setlist_set, set_idx) ==
    IF Get(setlist_set, "encore", 0) # 0 THEN Encore
    ELSE IF Get(setlist_set, "name", <<>>) # <<>> THEN setlist_set["name"]
    ELSE <<"S","e","t"," ">> \o IntStr(set_idx + 1)

\* the track of lines 199-213 (with_info, cover_info, info are left out);
\* done is len(tracks) when the track is built
song_track(base, song, name_of_set, done) ==
       "id" :> (<<"s","e","t","l","i","s","t","_","s","o","n","g","_">>
                 \o base["setlist_id"] \o <<"_">> \o IntStr(done))
    @@ "name" :> Get(song, "name", Unknown)
    @@ "artists" :> base["artists"]
    @@ "set_name" :> name_of_set
    @@ "type" :> "track"
    @@ "source" :> "setlist.fm"

\* the loop of lines 193-216, from set set_idx on, with tracks built so far
RECURSIVE set_tracks(_, _, _, _)
set_tracks(base, sets, set_idx, tracks) ==
    IF set_idx >= Len(sets) THEN tracks
    ELSE LET setlist_set == sets[set_idx + 1]
             songs       == Get(setlist_set, "song", <<>>)
             added == [k \in 1..Len(songs) |->
                          song_track(base, songs[k], set_name(setlist_set, set_idx),
                                     Len(tracks) + k - 1)]
         IN  set_tracks(base, sets, set_idx + 1, tracks \o added)

\* _format_setlist_detail (lines 186-231), without audio_url / audio_search
format_setlist_detail(item) ==
    LET base   == format_setlist(item)
        tracks == set_tracks(base, SetsOf(item), 0, <<>>)
        source == IF \E i \in 1..Len(base["artists"]) :
                        OccursAt(Lower(base["artists"]), <<"p","h","i","s","h">>, i)
                  THEN "phish.in" ELSE "archive.org"
    IN     "tracks" :> tracks
        @@ "type" :> "album"
        @@ "audio_source" :> source
        @@ base

\* `sub in s`
Contains(s, sub) == \E i \in 1..(Len(s) + 1) : OccursAt(s, sub, i)

\* y or x
OrElse_swapped(x, y) == IF y # <<>> THEN y ELSE x

\* x or y, for str values
OrElse(x, y) == IF x # <<>> THEN x ELSE y

MaxSeconds == 125

\* item["duration"], in seconds
DurationSeconds == 0..MaxSeconds \cup {599, 600, 3599, 3600, 3661, 36000}

AudioDownloadValues ==
    { <<>>, <<"d",".","F","L","A","C">>, <<"d",".","m","p","3">> }

AudioValues ==
    { <<>>, <<"a",".","f","l","a","c">>, <<"a",".","m","p","3">>, <<"a","f","l","a">> }

\* the raw tracks of the Jamendo API
RawTracks ==
    { i @@ d @@ a @@ s @@ n :
        i \in {"id" :> <<"7">>},
        d \in Optional("audiodownload", AudioDownloadValues),
        a \in Optional("audio", AudioValues),
        s \in Optional("duration", DurationSeconds),
        n \in Optional("name", {<<"N">>}) }

\* f"{secs}", without the 02d
format_02d_no_pad(n) == IntStr(n)

\* f"{secs:02d}"
format_02d(n) == IF n < 100 THEN Pad2(n) ELSE IntStr(n)

\* _format_duration (lines 241-246)
format_duration(ms) ==
    LET seconds == ms \div 1000
        minutes == seconds \div 60
        secs    == seconds % 60
    IN  IntStr(minutes) \o <<":">> \o format_02d(secs)

\* _format_track (lines 65-89)
format_track(item) ==
    LET audio_url == OrElse(Get(item, "audiodownload", <<>>),
                            OrElse(Get(item, "audio", <<>>), <<>>))
    IN     "id" :> (TagJm \o item["id"])
        @@ "type" :> "track"
        @@ "name" :> Get(item, "name", <<>>)
        @@ "artists" :> Get(item, "artist_name", <<>>)
        @@ "artist_names" :> <<Get(item, "artist_name", <<>>)>>
        @@ "artist_id" :> (TagJmArtist \o Get(item, "artist_id", <<>>))
        @@ "album" :> Get(item, "album_name", <<>>)
        @@ "album_id" :> (TagJm \o Get(item, "album_id", <<>>))
        @@ "album_art" :> OrElse(Get(item, "album_image", <<>>),
                                 OrElse(Get(item, "image", <<>>), <<>>))
        @@ "duration_ms" :> (Get(item, "duration", 0) * 1000)
        @@ "duration" :> format_duration(Get(item, "duration", 0) * 1000)
        @@ "audio_url" :> audio_url
        @@ "license" :> Get(item, "license_ccurl", <<>>)
        @@ "release_date" :> Get(item, "releasedate", <<>>)
        @@ "source" :> "jamendo"
        @@ "format" :> (IF Contains(Lower(audio_url), <<"f","l","a","c">>)
                        THEN "flac" ELSE "mp3")

FmtIdle ==
    /\ fmt_op = "none"
    /\ fmt_in = <<>>
    /\ fmt_out = <<>>

FormatTrackPayload(track) ==
    /\ fmt_op = "none"
    /\ fmt_op' = "_format_track_payload"
    /\ fmt_in' = track
    /\ fmt_out' = format_track_payload(track)
    /\ UNCHANGED <<FmtOthers>>

FormatSetlistDetail(item) ==
    /\ fmt_op = "none"
    /\ fmt_op' = "_format_setlist_detail"
    /\ fmt_in' = item
    /\ fmt_out' = format_setlist_detail(item)
    /\ UNCHANGED <<FmtOthers>>

FormatTrack(item) ==
    /\ fmt_op = "none"
    /\ fmt_op' = "_format_track"
    /\ fmt_in' = item
    /\ fmt_out' = format_track(item)
    /\ UNCHANGED <<FmtOthers>>

FmtNext ==
    \/ \E item \in RawTracks : FormatTrack(item)
    \/ \E track \in CanonicalTracks : FormatTrackPayload(track)
    \/ \E item \in SetlistItems : FormatSetlistDetail(item)

(***************************************************************************)
(* SetlistService.get_setlist (lines 125-141).                             *)
(***************************************************************************)
SetlistIds == { <<"a","1">> }

\* the documents Setlist.fm answers a get_setlist with
DetailItems ==
    { item \in SetlistItems :
        /\ Len(SetsOf(item)) = 1
        /\ DOMAIN SetsOf(item)[1] = {"encore", "song"}
        /\ Len(SetsOf(item)[1]["song"]) = 1
        /\ item["artist"]["name"] = <<"P","h","i","s","h">> }

GsIdle ==
    /\ gs_id = <<>>
    /\ gs_pc = "idle"
    /\ gs_resp = NoResponse
    /\ gs_ret = <<>>
    /\ gs_requests = 0

\* lines 127-128: no API key, return None before any request
GetSetlistNoKey(id) ==
    /\ gs_pc = "idle"
    /\ sl_key = <<>>
    /\ gs_id' = id
    /\ gs_pc' = "done"
    /\ gs_ret' = PyNone
    /\ UNCHANGED <<gs_resp, gs_requests>>
    /\ UNCHANGED GsOthers

\* lines 130-131: issue the request, suspend at the await
GetSetlistCall(id) ==
    /\ gs_pc = "idle"
    /\ sl_key # <<>>
    /\ gs_id' = id
    /\ gs_requests' = gs_requests + 1
    /\ gs_pc' = "awaiting"
    /\ UNCHANGED <<gs_resp, gs_ret>>
    /\ UNCHANGED GsOthers

\* lines 133-141: None for a status other than 200 and for an error, else
\* the formatted document
GetSetlistReturn(resp, item) ==
    /\ gs_pc = "awaiting"
    /\ gs_resp' = resp
    /\ gs_ret' = IF resp.kind = "json" THEN format_setlist_detail(item) ELSE PyNone
    /\ gs_pc' = "done"
    /\ UNCHANGED <<gs_id, gs_requests>>
    /\ UNCHANGED GsOthers

(***************************************************************************)
(* Specifications: one per service, the other services not being called.   *)
(***************************************************************************)
InitSetlist == SlInit /\ JmIdle /\ LbIdle /\ RecIdle /\ MbIdle /\ FmtIdle /\ GsIdle

SpecSetlist == InitSetlist /\ [][SlNext]_vars

InitJamendo == SlIdle /\ JmIdle /\ LbIdle /\ RecIdle /\ MbIdle /\ FmtIdle /\ GsIdle

SpecJamendo == InitJamendo /\ [][JmNext]_vars

InitListenBrainz == SlIdle /\ JmIdle /\ LbInit /\ RecIdle /\ MbIdle /\ FmtIdle /\ GsIdle

SpecListenBrainz == InitListenBrainz /\ [][LbNext]_vars

InitRecommendations == SlIdle /\ JmIdle /\ LbIdle /\ RecInit /\ MbIdle /\ FmtIdle /\ GsIdle

SpecRecommendations == InitRecommendations /\ [][RecNext]_vars

InitMusicBrainz == SlIdle /\ JmIdle /\ LbIdle /\ RecIdle /\ MbIdle /\ FmtIdle /\ GsIdle

SpecMusicBrainz == InitMusicBrainz /\ [][MbNext]_vars

\* one get_album and one lookup_by_isrc, each followed through its sub-fetches
SubFetchIds == { <<"j","m","_","1","2">>, <<"7">> }

SubFetchNext ==
    \/ \E id \in SubFetchIds : GetAlbumCall(id)
    \/ \E resp \in Responses : GetAlbumHeader(resp)
    \/ \E resp \in Responses : GetAlbumTracks(resp)
    \/ \E isrc \in Isrcs : LookupByIsrcCall(isrc)
    \/ \E resp \in Responses, releases \in ReleaseLists : LookupByIsrcReturn(resp, releases)
    \/ \E cover \in Covers : GetCoverArtReturn(cover)

InitSubFetch == SlIdle /\ JmIdle /\ LbIdle /\ RecIdle /\ MbIdle /\ FmtIdle /\ GsIdle

SpecSubFetch == InitSubFetch /\ [][SubFetchNext]_vars

\* the operations that need a credential: search_setlists and get_setlist
\* with the API key, the submit methods and validate_token with the token
CredentialQueries == { <<"P","h","i","s","h">> }

\* an answer with status 200 and one with status 404
CredentialResponses == {r \in SubmitResponses : r.kind = "json" \/ r.status = 404}

CredentialNext ==
    \/ \E query \in CredentialQueries : SearchSetlistsNoKey(query)
    \/ \E query \in CredentialQueries : SearchSetlistsCall(query)
    \/ \E resp \in CredentialResponses : SearchSetlistsReturn(resp)
    \/ \E id \in SetlistIds : GetSetlistNoKey(id)
    \/ \E id \in SetlistIds : GetSetlistCall(id)
    \/ \E resp \in CredentialResponses, item \in DetailItems : GetSetlistReturn(resp, item)
    \/ LbNext

\* one current year, and users with no token or with the same token
InitCredentials ==
    /\ SlInit /\ JmIdle /\ LbInit /\ RecIdle /\ MbIdle /\ FmtIdle /\ GsIdle
    /\ sl_now = 2026
    /\ \A t \in Tasks : lb_user[t] \in { <<>>, <<"A">> }

SpecCredentials == InitCredentials /\ [][CredentialNext]_vars

InitFormat == SlIdle /\ JmIdle /\ LbIdle /\ RecIdle /\ MbIdle /\ FmtIdle /\ GsIdle

SpecFormat == InitFormat /\ [][FmtNext]_vars


(***************************************************************************)
(* Claims about the query interpreter of search_setlists.                  *)
(***************************************************************************)
\* q with the n characters from position i removed, once
RemoveSpan(q, i, n) == SubSeq(q, 1, i - 1) \o SubSeq(q, i + n, Len(q))

\* the request parameters of search_setlists have been built
SlParsed == sl_pc \in {"awaiting", "done"} /\ sl_params # NoParams

Has(d, k) == k \in DOMAIN d

\* the year the month-day rule applies: the one in the query, else the current one
ApplicableYear(mm) == IF mm.year_str # <<>> THEN mm.year_str ELSE Str4(sl_now)

\* (year, month, day) is a date of the calendar
IsCalendarDate(y, m, d) ==
    /\ y >= 1
    /\ m \in 1..12
    /\ d >= 1
    /\ d <= DaysInMonth(m, y)

\* a YYYY-MM-DD text that names a date of the calendar
IsCalendarDateText(t) ==
    /\ Len(t) = 10
    /\ IsCalendarDate(ToInt(Slice(t, 1, 4)), ToInt(Slice(t, 6, 2)), ToInt(Slice(t, 9, 2)))

\* the month and day of a month-day match compose to a date of the calendar
Composes(mm) ==
    IsCalendarDate(ToInt(ApplicableYear(mm)), MonthNumber(mm.month_str), ToInt(mm.day_str))

\* C1: search_setlists derives date/year/artistName by first-match-wins
\* priority: (1) a YYYY-MM-DD substring is the date verbatim; (2) otherwise a
\* month name plus day gives the composed date; (3) otherwise a standalone
\* 1900-2099 token is the year; (4) otherwise neither is set and the artist is
\* the whole query.  At most one of date/year is set and the artist name is
\* the query with the matched substring removed; the four examples hold.
\* Rule (2) is read for a month and day that compose to a date; what happens
\* to one that composes to none (Feb 31) is the subject of C10.
C1_PriorityParse ==
    SlParsed =>
      LET q  == sl_query
          p  == sl_params
          dm == date_match(q)
          mm == month_match(q)
          ym == year_match(q)
      IN  /\ ~(Has(p, "date") /\ Has(p, "year"))
          /\ Has(p, "artistName")
          /\ IF dm # 0
             THEN /\ Has(p, "date") /\ p.date = date_group0(q)
                  /\ ~Has(p, "year")
                  /\ p.artistName = Strip(RemoveSpan(q, dm, 10))
             ELSE IF mm.matched
             THEN Composes(mm) =>
                  /\ Has(p, "date")
                  /\ p.date = strftime(ApplicableYear(mm), mm.month_str, mm.day_str)
                  /\ ~Has(p, "year")
                  /\ p.artistName = Strip(RemoveSpan(q, mm.start, Len(mm.group0)))
             ELSE IF ym # 0
             THEN /\ Has(p, "year") /\ p.year = year_group0(q)
                  /\ ~Has(p, "date")
                  /\ p.artistName = Strip(RemoveSpan(q, ym, 4))
             ELSE /\ ~Has(p, "date") /\ ~Has(p, "year")
                  /\ p.artistName = q
          /\ (q = <<"P","h","i","s","h"," ","2","0","2","3">>
                => p = ("p" :> sl_page) @@ ("year" :> <<"2","0","2","3">>)
                         @@ ("artistName" :> <<"P","h","i","s","h">>))
          /\ (q = <<"P","e","a","r","l"," ","J","a","m"," ","1","9","9","1","-","0","9","-","2","0">>
                => p = ("p" :> sl_page)
                         @@ ("date" :> <<"1","9","9","1","-","0","9","-","2","0">>)
                         @@ ("artistName" :> <<"P","e","a","r","l"," ","J","a","m">>))
          /\ (q = <<"D","e","a","d"," ","D","e","c","e","m","b","e","r"," ","3","1"," ","1","9","7","7">>
                => p = ("p" :> sl_page)
                         @@ ("date" :> <<"1","9","7","7","-","1","2","-","3","1">>)
                         @@ ("artistName" :> <<"D","e","a","d">>))
          /\ (q = <<"G","r","a","t","e","f","u","l"," ","D","e","a","d">>
                => p = ("p" :> sl_page)
                         @@ ("artistName" :> <<"G","r","a","t","e","f","u","l"," ","D","e","a","d">>))

\* C8: in the parameters search_setlists sends, artistName is absent or a
\* non-empty string without leading or trailing whitespace, on every branch.
C8_ArtistAbsentOrTrimmed ==
    SlParsed =>
      \/ ~Has(sl_params, "artistName")
      \/ /\ sl_params.artistName # <<>>
         /\ ~IsSpace(sl_params.artistName[1])
         /\ ~IsSpace(sl_params.artistName[Len(sl_params.artistName)])

\* C9: when a date or year pattern supplied the filter, the artist string is
\* the query with exactly the one matched span removed; other occurrences of
\* the same text stay in the artist string.
C9_SpanRemovedOnce ==
    SlParsed =>
      LET q  == sl_query
          p  == sl_params
          dm == date_match(q)
          mm == month_match(q)
          ym == year_match(q)
      IN  /\ (Has(p, "date") /\ dm # 0
                => p.artistName = Strip(RemoveSpan(q, dm, 10)))
          /\ (Has(p, "date") /\ dm = 0
                => p.artistName = Strip(RemoveSpan(q, mm.start, Len(mm.group0))))
          /\ (Has(p, "year")
                => p.artistName = Strip(RemoveSpan(q, ym, 4)))

\* C10: when the month-day rule matches but month and day are no calendar
\* date in the applicable year (the query's, else the current one), no date is
\* emitted, year is set iff a standalone 1900-2099 token is present, and
\* otherwise the whole query is the artist; every date emitted is a calendar date.
C10_InvalidDateFallsBack ==
    SlParsed =>
      LET q  == sl_query
          p  == sl_params
          mm == month_match(q)
          ym == year_match(q)
      IN  /\ (date_match(q) = 0 /\ mm.matched /\ ~Composes(mm))
                => /\ ~Has(p, "date")
                   /\ Has(p, "year") <=> (ym # 0)
                   /\ (ym = 0 => p.artistName = q)
          /\ (Has(p, "date") => IsCalendarDateText(p.date))

(***************************************************************************)
(* Claims about error handling of the search operations and about ids.     *)
(***************************************************************************)
\* C2: for every search operation of every provider (Jamendo search_tracks,
\* search_albums, search_artists; Setlist search_setlists), a fetch that fails
\* with a non-2xx status, a timeout/network error or a malformed payload makes
\* the operation return an empty sequence, and no exception reaches the caller.
C2_SearchFailureGivesEmpty ==
    /\ (sl_pc = "done" /\ Failed(sl_resp))
         => (sl_ret = <<>> /\ ~sl_raised)
    /\ (jm_op \in SearchOps /\ jm_pc = "done" /\ Failed(jm_resp))
         => (jm_ret = ListOf(<<>>) /\ ~jm_raised)

\* the longest of the tags that id starts with (the empty text when none)
LeadingTag(id, tags) ==
    LET found == {t \in tags : StartsWith(id, t)}
    IN  IF found = {} THEN <<>>
        ELSE CHOOSE t \in found : \A u \in found : Len(u) <= Len(t)

\* the tags get_* may strip from the id of the operation
TagsOf(op) == IF op = "get_artist" THEN {TagJmArtist, TagJm} ELSE {TagJm}

GetOps == {"get_track", "get_album", "get_artist", "get_stream_url"}

\* C7: the raw id get_track, get_album, get_artist and get_stream_url send is
\* the input id with only its known leading tag removed (jm_; jm_artist_ or
\* jm_ for artists): the text after the tag is never altered, an id without
\* the tag passes unchanged, and re-adding the tag restores a tagged id.
C7_OnlyLeadingTagStripped ==
    (jm_op \in GetOps) =>
      LET tag == LeadingTag(jm_arg, TagsOf(jm_op))
      IN  \A i \in DOMAIN jm_log :
            /\ jm_log[i].id = SubSeq(jm_arg, Len(tag) + 1, Len(jm_arg))
            /\ tag \o jm_log[i].id = jm_arg

(***************************************************************************)
(* Claims about ListenBrainz submissions and recommendations, and about    *)
(* the registry lookup.                                                    *)
(***************************************************************************)
\* C3: under any interleaving of tasks that each call set_token with their
\* own token and then submit_now_playing/submit_listen, every submission
\* carries the Authorization token of the task that issued it.
C3_SubmissionUsesOwnToken ==
    \A i \in DOMAIN lb_sent :
        lb_sent[i].listen_type \in {"playing_now", "single"} =>
            lb_sent[i].headers = get_headers(lb_user[lb_sent[i].task])

\* the entries the registry resolves among the first 15 ids, in upstream order
RECURSIVE ResolvedOf(_)
ResolvedOf(ids) ==
    IF ids = <<>> THEN <<>>
    ELSE (IF Head(ids) # MbidNone /\ Resolves(Head(ids))
          THEN <<Recommendation(Head(ids))>> ELSE <<>>) \o ResolvedOf(Tail(ids))

\* C4: get_recommendations returns, in upstream order, exactly one entry for
\* each of the first 15 identifiers that is non-empty and resolves, tagged
\* type "recommendation" and source "listenbrainz"; an identifier that is
\* empty or resolves to nothing is skipped without affecting the others.
C4_ResolvedEntriesReturned ==
    (rec_pc = "done" /\ rec_resp.kind = "json")
        => rec_ret = ResolvedOf(Take(rec_payload, 15))

\* C5: one get_recommendations request reaches the registry lookup at most 15
\* times, whatever the number of identifiers upstream and the requested
\* count: the loop walks at most 15 identifiers and looks each up at most once.
C5_AtMostFifteenLookups ==
    /\ rec_lookups <= 15
    /\ rec_lookups <= Len(rec_mbids)
    /\ Len(rec_mbids) <= 15

\* a request with more than 15 identifiers upstream has walked its list and
\* reached the lookup
C5_Witness ==
    /\ rec_pc = "done"
    /\ Len(rec_payload) > 15
    /\ Len(rec_mbids) = 15
    /\ rec_lookups >= 1

\* C6: lookup_by_isrc returns None and issues no request for every identifier
\* that is empty or carries a synthetic prefix, the synthetic prefixes being
\* those the scrobble payload withholds (dz_, ytm_, LINK:, pod_).
C6_SyntheticIsrcNoRequest ==
    (mb_pc # "idle" /\ (mb_isrc = <<>> \/ StartsWithAny(mb_isrc, ScrobbleSkipPrefixes)))
        => (mb_pc = "done" /\ mb_ret = MbNone /\ mb_requests = <<>>)

(***************************************************************************)
(* Claims about the formatters.                                            *)
(***************************************************************************)
\* the additional_info fields that the track populates
PopulatedFields(track) ==
       {k \in {"duration_ms"} : Get(track, "duration_ms", 0) # 0}
  \cup {k \in {"release_name"} : Get(track, "album", <<>>) # <<>>}
  \cup {k \in {"isrc"} : /\ Get(track, "isrc", <<>>) # <<>>
                         /\ ~StartsWithAny(track["isrc"], ScrobbleSkipPrefixes)}
  \cup {k \in {"tracknumber"} : Get(track, "track_number", 0) # 0}

\* C11: the payload of _format_track_payload holds the additional_info key
\* only when one of duration_ms, release_name, isrc, tracknumber is populated,
\* and then as the object of the populated fields; when none is populated the
\* key is absent from track_metadata (no empty object, no null); an isrc with
\* a synthetic internal prefix is never included.
C11_AdditionalInfoOmittedWhenEmpty ==
    fmt_op = "_format_track_payload" =>
        LET md == fmt_out["track_metadata"]
        IN  /\ Has(md, "additional_info") <=> PopulatedFields(fmt_in) # {}
            /\ Has(md, "additional_info") =>
                    /\ md["additional_info"] # PyNone
                    /\ DOMAIN md["additional_info"] = PopulatedFields(fmt_in)
                    /\ Has(md["additional_info"], "isrc") =>
                            ~StartsWithAny(md["additional_info"]["isrc"],
                                           ScrobbleSkipPrefixes)

(***************************************************************************)
(* Claims about the order of the sub-fetches of one invocation.            *)
(***************************************************************************)
\* the fetches of get_album that have been issued and not yet answered
AlbumInFlight ==
    Len(jm_log) - (CASE jm_pc = "await1" -> 0
                     [] jm_pc = "await2" -> 1
                     [] OTHER            -> Len(jm_log))

\* the fetches of lookup_by_isrc that have been issued and not yet answered
IsrcInFlight ==
    Len(mb_requests) - (CASE mb_pc = "await_isrc"  -> 0
                          [] mb_pc = "await_cover" -> 1
                          [] OTHER                 -> Len(mb_requests))

\* the fetches issued so far are in the required order, at most one is in flight
SubFetchesInOrder ==
    /\ jm_op = "get_album" =>
            /\ Len(jm_log) \in 1..2
            /\ jm_log[1].endpoint = "/albums/"
            /\ Len(jm_log) = 2 => jm_log[2].endpoint = "/albums/tracks/"
            /\ jm_pc = "await1" => Len(jm_log) = 1
            /\ jm_pc = "await2" => (~Failed(jm_resp) /\ jm_resp.items # <<>>)
            /\ AlbumInFlight <= 1
    /\ mb_requests # <<>> =>
            /\ Len(mb_requests) \in 1..2
            /\ mb_requests[1].api = "isrc"
            /\ Len(mb_requests) = 2 =>
                    /\ mb_requests[2].api = "cover"
                    /\ mb_requests[2].id # <<>>
                    /\ mb_requests[2].id = mb_result.release_id
            /\ mb_pc = "await_isrc" => Len(mb_requests) = 1
            /\ mb_pc = "await_cover" => ~Failed(mb_resp)
            /\ IsrcInFlight <= 1

\* a second fetch is issued only in the step that takes the answer of the
\* first, and only when that answer is usable
SecondFetchAfterFirst ==
    /\ (jm_op = "get_album" /\ jm_log' # jm_log) =>
            /\ jm_pc = "await1"
            /\ ~Failed(jm_resp') /\ jm_resp'.items # <<>>
            /\ jm_log' = Append(jm_log, jm_log'[2])
    /\ (jm_op = "get_album" /\ jm_pc = "await1" /\ jm_pc' # "await1"
            /\ (Failed(jm_resp') \/ jm_resp'.items = <<>>)) =>
            (jm_log' = jm_log /\ jm_pc' = "done")
    /\ (mb_requests # <<>> /\ mb_requests' # mb_requests) =>
            /\ mb_pc = "await_isrc"
            /\ ~Failed(mb_resp')
            /\ mb_requests' = Append(mb_requests, mb_requests'[2])

\* C12: within one invocation the sub-fetches go out one after another in
\* the required order: get_album issues the album-tracks fetch only after the
\* album-header fetch returned a non-empty result (none when the header is
\* not found), lookup_by_isrc issues the cover-art fetch only after the
\* recording lookup returned and only for a non-empty release id, and no two
\* fetches of one invocation are in flight together.
C12_SubFetchesOneAfterAnother ==
    [](SubFetchesInOrder) /\ [][SecondFetchAfterFirst]_vars

\* both invocations went through their two fetches
C12_Witness ==
    /\ jm_op = "get_album" /\ jm_pc = "done" /\ Len(jm_log) = 2
    /\ mb_pc = "done" /\ Len(mb_requests) = 2

\* the set_name each song of the sets from position p on is to carry
RECURSIVE ExpectedSetNames(_, _)
ExpectedSetNames(sets, p) ==
    IF p > Len(sets) THEN <<>>
    ELSE LET s == sets[p]
             label == IF "encore" \in DOMAIN s /\ s["encore"] # 0
                          THEN <<"E","n","c","o","r","e">>
                      ELSE IF "name" \in DOMAIN s /\ s["name"] # <<>>
                          THEN s["name"]
                      ELSE CASE p = 1 -> <<"S","e","t"," ","1">>
                             [] p = 2 -> <<"S","e","t"," ","2">>
                             [] p = 3 -> <<"S","e","t"," ","3">>
                             [] OTHER -> <<"S","e","t"," ">> \o IntStr(p)
             n == IF "song" \in DOMAIN s THEN Len(s["song"]) ELSE 0
         IN  [k \in 1..n |-> label] \o ExpectedSetNames(sets, p + 1)

\* C14: in _format_setlist_detail every track's set_name is "Encore" when
\* its set is flagged as an encore, whether or not the set has a name;
\* otherwise the set's own non-empty name; otherwise "Set N", N the 1-based
\* position of the set among all sets of the setlist.
C14_EncoreFlagWins ==
    fmt_op = "_format_setlist_detail" =>
        LET tracks == fmt_out["tracks"]
        IN  [k \in 1..Len(tracks) |-> tracks[k]["set_name"]]
                = ExpectedSetNames(SetsOf(fmt_in), 1)

\* a named encore set with a song, followed by an unnamed set with a song
C14_Witness ==
    /\ fmt_op = "_format_setlist_detail"
    /\ Len(SetsOf(fmt_in)) = 2
    /\ Get(SetsOf(fmt_in)[1], "encore", 0) = 1
    /\ Get(SetsOf(fmt_in)[1], "name", <<>>) # <<>>
    /\ Get(SetsOf(fmt_in)[2], "encore", 0) = 0
    /\ Get(SetsOf(fmt_in)[2], "name", <<>>) = <<>>
    /\ Len(fmt_out["tracks"]) >= 2
    /\ fmt_out["tracks"][1]["set_name"] = <<"E","n","c","o","r","e">>
    /\ fmt_out["tracks"][Len(fmt_out["tracks"])]["set_name"] = <<"S","e","t"," ","2">>

\* the text holds "flac" in any letter case
HasFlac(t) ==
    \E i \in 1..(Len(t) - 3) :
        /\ t[i] \in {"f", "F"}
        /\ t[i + 1] \in {"l", "L"}
        /\ t[i + 2] \in {"a", "A"}
        /\ t[i + 3] \in {"c", "C"}

\* the audio URL of a raw track: audiodownload when non-empty, else audio,
\* else empty
ResolvedAudio(item) ==
    IF "audiodownload" \in DOMAIN item /\ item["audiodownload"] # <<>>
        THEN item["audiodownload"]
    ELSE IF "audio" \in DOMAIN item /\ item["audio"] # <<>>
        THEN item["audio"]
    ELSE <<>>

\* C15: _format_track resolves the audio URL as audiodownload when non-empty,
\* else audio, else empty; format is "flac" if and only if that URL contains
\* "flac" in any letter case, and "mp3" for every other track, one with no
\* audio URL included.
C15_FormatFollowsResolvedUrl ==
    fmt_op = "_format_track" =>
        /\ fmt_out["audio_url"] = ResolvedAudio(fmt_in)
        /\ fmt_out["format"] = "flac" <=> HasFlac(ResolvedAudio(fmt_in))
        /\ fmt_out["format"] = "mp3" <=> ~HasFlac(ResolvedAudio(fmt_in))

\* a lossy audiodownload hides a lossless audio field
C15_Witness ==
    /\ fmt_op = "_format_track"
    /\ Get(fmt_in, "audiodownload", <<>>) = <<"d",".","m","p","3">>
    /\ Get(fmt_in, "audio", <<>>) = <<"a",".","f","l","a","c">>
    /\ fmt_out["format"] = "mp3"

\* C16: for every track of _format_track, duration_ms is the provider's
\* seconds times 1000 (0 when unknown), and duration is floor(ms/1000/60)
\* in decimal, a colon, and floor(ms/1000) mod 60 in two digits; 0 gives "0:00".
C16_DurationMinutesSeconds ==
    fmt_op = "_format_track" =>
        LET secs_in == IF "duration" \in DOMAIN fmt_in THEN fmt_in["duration"] ELSE 0
            ms      == fmt_out["duration_ms"]
            text    == fmt_out["duration"]
            n       == Len(text)
            mins    == SubSeq(text, 1, n - 3)
        IN  /\ ms = secs_in * 1000
            /\ n >= 4
            /\ text[n - 2] = ":"
            /\ AllDigits(mins)
            /\ (Len(mins) > 1 => mins[1] # "0")
            /\ ToInt(mins) = (ms \div 1000) \div 60
            /\ AllDigits(SubSeq(text, n - 1, n))
            /\ ToInt(SubSeq(text, n - 1, n)) = (ms \div 1000) % 60
            /\ (ms = 0 => text = <<"0", ":", "0", "0">>)

\* more than an hour, with a single-digit seconds part
C16_Witness ==
    /\ fmt_op = "_format_track"
    /\ Get(fmt_in, "duration", 0) = 3661
    /\ fmt_out["duration_ms"] = 3661000
    /\ fmt_out["duration"] = <<"6", "1", ":", "0", "1">>

(***************************************************************************)
(* Claims about missing credentials.                                       *)
(***************************************************************************)
\* with no API key the setlist operations have issued no request, and the
\* ones that returned gave their absence value
NoKeyNoRequest ==
    sl_key = <<>> =>
        /\ sl_requests = 0
        /\ gs_requests = 0
        /\ sl_pc \in {"idle", "done"}
        /\ gs_pc \in {"idle", "done"}
        /\ sl_pc = "done" => sl_ret = <<>>
        /\ gs_pc = "done" => gs_ret = [none |-> TRUE]

\* a task that calls a ListenBrainz operation while the token is empty
\* returns at once, False from the submit methods and None from
\* validate_token, and nothing is sent
NoTokenNoRequest ==
    \A t \in Tasks :
        (lb_pc[t] = "token_set" /\ lb_pc'[t] # "token_set" /\ lb_token = <<>>) =>
            /\ lb_sent' = lb_sent
            /\ lb_pc'[t] = "done"
            /\ lb_op'[t] \in {"submit_now_playing", "submit_listen"} => lb_ret'[t] = "False"
            /\ lb_op'[t] = "validate_token" => lb_ret'[t] = "None"

\* C13: with the credential absent the operation returns its absence value
\* and issues no network request: search_setlists returns [] and get_setlist
\* None when the Setlist.fm API key is empty; submit_now_playing and
\* submit_listen return False and validate_token None when the ListenBrainz
\* token is empty.
C13_NoCredentialNoRequest ==
    [](NoKeyNoRequest) /\ [][NoTokenNoRequest]_vars

\* all five operations have short-circuited: both setlist operations with no
\* key, one task in a submit method and one in validate_token with no token
C13_Witness ==
    /\ sl_key = <<>> /\ sl_pc = "done" /\ gs_pc = "done"
    /\ lb_token = <<>> /\ lb_sent = <<>>
    /\ \E t \in Tasks : lb_op[t] = "validate_token" /\ lb_pc[t] = "done" /\ lb_ret[t] = "None"
    /\ \E t \in Tasks : lb_op[t] = "submit_listen" /\ lb_pc[t] = "done" /\ lb_ret[t] = "False"

(***************************************************************************)
(* Claims about the tokens the month-day rule of search_setlists reads.    *)
(***************************************************************************)
\* the full month names and their 3-letter abbreviations, in lower case
MonthWords ==
    { <<"j","a","n","u","a","r","y">>,
      <<"f","e","b","r","u","a","r","y">>,
      <<"m","a","r","c","h">>,
      <<"a","p","r","i","l">>,
      <<"m","a","y">>,
      <<"j","u","n","e">>,
      <<"j","u","l","y">>,
      <<"a","u","g","u","s","t">>,
      <<"s","e","p","t","e","m","b","e","r">>,
      <<"o","c","t","o","b","e","r">>,
      <<"n","o","v","e","m","b","e","r">>,
      <<"d","e","c","e","m","b","e","r">>,
      <<"j","a","n">>, <<"f","e","b">>, <<"m","a","r">>, <<"a","p","r">>, <<"m","a","y">>, <<"j","u","n">>, <<"j","u","l">>, <<"a","u","g">>, <<"s","e","p">>, <<"o","c","t">>, <<"n","o","v">>, <<"d","e","c">> }

\* the position after the longest run of digits starting at i
RECURSIVE SkipDigits(_, _)
SkipDigits(q, i) == IF i <= Len(q) /\ q[i] \in Digits THEN SkipDigits(q, i + 1) ELSE i

\* at position i starts a word that is exactly a month name or abbreviation,
\* followed by whitespace and a digit run of one or two digits
MonthDayTokensAt(q, i) ==
    LET wordEnd == SkipAlpha(q, i)
        dayPos  == SkipSpace(q, wordEnd)
        dayEnd  == SkipDigits(q, dayPos)
    IN  /\ i = 1 \/ ~IsWord(q[i - 1])
        /\ Lower(SubSeq(q, i, wordEnd - 1)) \in MonthWords
        /\ dayPos > wordEnd
        /\ dayEnd - dayPos \in {1, 2}

\* C17: the month-day rule of search_setlists fires only on a token that is
\* exactly a full month name or its 3-letter abbreviation followed by a
\* complete numeric token of 1-2 digits; a longer word that starts with a
\* month abbreviation is no month and the first two digits of a longer digit
\* run are no day, so a query such as "Dead May 1977" is handled by the
\* bare-year rule with year equal to its 4-digit token.
C17_MonthDayNeedsWholeTokens ==
    SlParsed =>
        LET q == sl_query
        IN  (/\ date_match(q) = 0
             /\ ~\E i \in 1..Len(q) : MonthDayTokensAt(q, i)) =>
                /\ ~Has(sl_params, "date")
                /\ year_match(q) # 0 =>
                        /\ Has(sl_params, "year")
                        /\ sl_params["year"] = year_group0(q)

=============================================================================
